---- MODULE Spec2Model ----
(***************************************************************************)
(* Time-capsule server: the capsule routes (routes/capsuleRoutes.js), the  *)
(* reveal gate (services/capsuleService.js) and the capsule store          *)
(* (services/storageService.js, with the media columns and the delete of   *)
(* its later revision), as one state machine.  Every action is one HTTP    *)
(* request handled from validation to response.                            *)
(*                                                                         *)
(* Representation.  A JavaScript object is a TLA+ record (a function on    *)
(* strings), so "the key is absent" is "the string is not in DOMAIN".      *)
(* ISO-8601 timestamps are the integer instant they denote.  A uuid is a   *)
(* fresh number.  A bcrypt digest is the pair <<"$2a$", secret>>, a null   *)
(* digest is the empty tuple.  null is "" in a text column and 0 in a      *)
(* numeric one: the schemas admit neither value, and the code tests both   *)
(* by truthiness.                                                          *)
(***************************************************************************)
EXTENDS Integers, Sequences, FiniteSets, TLC

\* ------------------------------------------------------------------ bounds
MaxCapsules == 1        \* capsules ever stored (uuids of saved capsules)
MaxTime     == 2        \* the clock runs over 0..MaxTime
MaxStored   == 2        \* capsules ever stored, in the media-attachment runs
MaxDescriptors == 6     \* the longest attachment list a request carries

\* ------------------------------------------------------------------ inputs
Owners       == {"alice", "bob"}
NoOwner      == ""                      \* req.user.sub undefined
Callers      == Owners \cup {NoOwner}
Passphrases  == {"orbit42", "wrong"}
NoPassphrase == ""                      \* payload.passphrase absent
Messages     == {"hello"}
CapsuleIds   == 1..MaxCapsules
RevealTimes  == {1}                     \* before, at and after some clock value
Null         == <<>>
NullStr      == ""                      \* null where the value is a string
NullNum      == 0                       \* null where the value is a number
ImageTypes   == {"image/webp"}          \* content types starting with image/
VideoTypes   == {"video/mp4", "video/x-flv"}    \* ... starting with video/

Descriptor == [fileName |-> "images/a.webp", contentType |-> "image/webp",
               size |-> 10, width |-> 4, height |-> 3, fileId |-> "f1"]

AttachmentLists == {<<>>, <<Descriptor>>}

Payloads == [title : {"t"}, message : Messages, revealAt : RevealTimes,
             passphrase : {NoPassphrase, "orbit42"},
             attachments : AttachmentLists]

VARIABLES
    capsules,       \* table capsules: id -> row (committed)
    attachments,    \* table capsule_attachments: set of rows (committed)
    now,            \* the wall clock read by new Date()
    nextId,         \* the uuid the next saved capsule gets
    response,       \* the last HTTP response sent
    video,          \* the video-processing handler: request, position, tempFiles
    disk,           \* the scratch files in os.tmpdir()
    bucket,         \* the objects in the object store
    authorization,  \* b2Service: the cached credential
    lastAuthorizedAt,   \* b2Service: when the cached credential was asked for
    calls,          \* the calls of authorize() in flight, by caller
    txs             \* the write transactions of saveCapsule, by request

capsuleVars == <<capsules, attachments, now, nextId>>
mediaVars == <<video, disk, bucket>>
b2Vars == <<authorization, lastAuthorizedAt, calls>>
vars == <<capsules, attachments, now, nextId, response, video, disk, bucket,
          authorization, lastAuthorizedAt, calls, txs>>

\* ------------------------------------------------------------- JS helpers
Ext(r, k, v) == [x \in DOMAIN r \cup {k} |-> IF x = k THEN v ELSE r[x]]
Without(r, ks) == [x \in DOMAIN r \ ks |-> r[x]]
Truthy(s) == s # ""
\* r.k, or the default when the key is absent (undefined)
Get(r, k, default) == IF k \in DOMAIN r THEN r[k] ELSE default

\* all orders in which a query may return the rows S
RowOrders(S) ==
    {s \in [1..Cardinality(S) -> S] :
        \A i, j \in DOMAIN s : i # j => s[i] # s[j]}

\* ---------------------------------------------------------------- bcrypt
\* bcrypt.hash and bcrypt.compare of bcryptjs, taken as an ideal digest: two
\* secrets have the same digest only when they are equal
BcryptHash(secret) == <<"$2a$", secret>>
BcryptCompare(secret, digest) == digest = BcryptHash(secret)

\* ------------------------------------------------- services/capsuleService
\* assertOwner throws OwnerRequired (401) for a falsy ownerId
assertOwner(ownerId) == Truthy(ownerId)

\* a bug: only the digest is removed
stripSensitiveFields_hashOnly(capsule) == Without(capsule, {"passphraseHash"})

stripSensitiveFields(capsule) == Without(capsule, {"passphraseHash", "ownerId"})

\* a bug: the hidden message is blanked, its key stays in the projection
messageAvailableFlag_placeholder(capsule, messageAvailable) ==
    LET sanitized == stripSensitiveFields(capsule)
        kept == IF messageAvailable THEN sanitized
                ELSE [sanitized EXCEPT !["message"] = ""]
    IN  Ext(kept, "messageAvailable", messageAvailable)

messageAvailableFlag(capsule, messageAvailable) ==
    LET sanitized == stripSensitiveFields(capsule)
        kept == IF messageAvailable THEN sanitized
                ELSE Without(sanitized, {"message"})
    IN  Ext(kept, "messageAvailable", messageAvailable)

normalizeAttachmentForStorage(attachment, i, capsuleId, timestamp) ==
    [id |-> <<capsuleId, i>>, capsuleId |-> capsuleId,
     fileName |-> attachment.fileName, contentType |-> attachment.contentType,
     sizeBytes |-> attachment.size, size |-> attachment.size,
     width |-> Get(attachment, "width", NullNum),
     height |-> Get(attachment, "height", NullNum),
     fileId |-> Get(attachment, "fileId", NullStr), createdAt |-> timestamp]

\* -------------------------------------------------- services/storageService
mapAttachmentRow(row) ==
    LET size == row.size_bytes
        posterSize == row.poster_size_bytes
        mediaType == IF Truthy(row.media_type) THEN row.media_type
                     ELSE IF row.content_type \in VideoTypes THEN "video"
                     ELSE "image"
    IN  [id |-> row.id, mediaType |-> mediaType, fileName |-> row.file_name,
         contentType |-> row.content_type, size |-> size, sizeBytes |-> size,
         width |-> row.width, height |-> row.height, fileId |-> row.file_id,
         durationSeconds |-> row.duration_seconds, bitrate |-> row.bitrate,
         poster |-> IF Truthy(row.poster_file_name)
                    THEN [fileName |-> row.poster_file_name,
                          contentType |-> row.poster_content_type,
                          size |-> posterSize, sizeBytes |-> posterSize,
                          width |-> row.poster_width,
                          height |-> row.poster_height,
                          fileId |-> row.poster_file_id]
                    ELSE Null,
         createdAt |-> row.created_at]

mapRowToCapsule(row) ==
    [id |-> row.id, title |-> row.title, message |-> row.message,
     author |-> row.author, ownerId |-> row.owner_id,
     createdAt |-> row.created_at, revealAt |-> row.reveal_at,
     isLocked |-> (row.is_locked # 0), passphraseHash |-> row.passphrase_hash]

\* the row INSERT INTO capsules writes
CapsuleRow(capsule) ==
    [id |-> capsule.id, title |-> capsule.title, message |-> capsule.message,
     author |-> capsule.author, owner_id |-> capsule.ownerId,
     created_at |-> capsule.createdAt, reveal_at |-> capsule.revealAt,
     is_locked |-> IF capsule.isLocked THEN 1 ELSE 0,
     passphrase_hash |-> capsule.passphraseHash]

\* the row insertAttachments writes for one attachment
AttachmentRow(attachment) ==
    LET mediaType == Get(attachment, "mediaType", NullStr)
        poster == Get(attachment, "poster", Null)
    IN  [id |-> attachment.id, capsule_id |-> attachment.capsuleId,
         media_type |-> IF Truthy(mediaType) THEN mediaType ELSE "image",
         file_name |-> attachment.fileName,
         content_type |-> attachment.contentType,
         size_bytes |-> attachment.sizeBytes, width |-> attachment.width,
         height |-> attachment.height, file_id |-> attachment.fileId,
         duration_seconds |-> Get(attachment, "durationSeconds", NullNum),
         bitrate |-> Get(attachment, "bitrate", NullNum),
         poster_file_name |-> Get(poster, "fileName", NullStr),
         poster_content_type |-> Get(poster, "contentType", NullStr),
         poster_size_bytes |-> Get(poster, "size", NullNum),
         poster_width |-> Get(poster, "width", NullNum),
         poster_height |-> Get(poster, "height", NullNum),
         poster_file_id |-> Get(poster, "fileId", NullStr),
         created_at |-> attachment.createdAt]

\* the attachment lists a read may return for one capsule:
\* ORDER BY datetime(created_at) ASC, rows of equal created_at in any order
getAttachmentsForCapsules(capsuleId) ==
    LET rows == {a \in attachments : a.capsule_id = capsuleId}
        sorted == {s \in RowOrders(rows) : \A i, j \in DOMAIN s :
                      i < j => s[i].created_at <= s[j].created_at}
    IN  {[i \in DOMAIN s |-> mapAttachmentRow(s[i])] : s \in sorted}

\* a bug: the lookup never scopes by owner
getCapsuleById_unscoped(id, ownerId) ==
    IF id \in DOMAIN capsules
    THEN {Ext(mapRowToCapsule(capsules[id]), "attachments", atts) :
             atts \in getAttachmentsForCapsules(id)}
    ELSE {}

\* the capsules (with attachments) a lookup by id may return; {} is null.
\* A falsy ownerId selects by id alone.
getCapsuleById(id, ownerId) ==
    LET hit == IF Truthy(ownerId)
               THEN id \in DOMAIN capsules /\ capsules[id].owner_id = ownerId
               ELSE id \in DOMAIN capsules
    IN  IF hit
        THEN {Ext(mapRowToCapsule(capsules[id]), "attachments", atts) :
                 atts \in getAttachmentsForCapsules(id)}
        ELSE {}

\* the lists getCapsulesByOwner may return: ORDER BY datetime(created_at) DESC
getCapsulesByOwner(ownerId) ==
    IF ~Truthy(ownerId) THEN {<<>>}
    ELSE
    LET ids == {id \in DOMAIN capsules : capsules[id].owner_id = ownerId}
        sorted == {s \in RowOrders(ids) : \A i, j \in DOMAIN s :
                      i < j => capsules[s[i]].created_at >= capsules[s[j]].created_at}
        lists == UNION {getAttachmentsForCapsules(id) : id \in ids}
        joins == {f \in [ids -> lists] :
                     \A id \in ids : f[id] \in getAttachmentsForCapsules(id)}
    IN  {[i \in DOMAIN s |->
             Ext(mapRowToCapsule(capsules[s[i]]), "attachments", f[s[i]])] :
            s \in sorted, f \in joins}

\* The write transaction of saveCapsule.  Its statements are: 1 the capsule
\* insert, 2..n+1 the attachment inserts, n+2 the commit.  TxAfter(k) is the
\* transaction's view of both tables after its first k statements have run.
TxAfter(capsule, atts, k) ==
    [capsules |-> IF k >= 1 THEN Ext(capsules, capsule.id, CapsuleRow(capsule))
                  ELSE capsules,
     attachments |-> attachments \cup
                        {AttachmentRow(atts[i]) :
                            i \in {j \in DOMAIN atts : j + 1 <= k}}]

\* the message of the error statement failAt of the transaction throws
StatementError(failAt, n) ==
    IF failAt = 1 THEN "insert into capsules failed"
    ELSE IF failAt <= n + 1 THEN "insert into capsule_attachments failed"
    ELSE "commit failed"

\* a bug: no transaction, every statement that ran before the failure stays
saveCapsule_autocommit(capsule, atts, failAt) ==
    IF failAt = 0
    THEN [ok |-> TRUE, error |-> ""] @@ TxAfter(capsule, atts, Len(atts) + 2)
    ELSE [ok |-> FALSE, error |-> StatementError(failAt, Len(atts))]
         @@ TxAfter(capsule, atts, failAt - 1)

\* saveCapsule: statement failAt throws (0: none does).  The result is the
\* committed store afterwards and whether saveCapsule returned (ok) or threw:
\* the catch block rolls the transaction back and rethrows.
saveCapsule(capsule, atts, failAt) ==
    IF failAt = 0
    THEN [ok |-> TRUE, error |-> ""] @@ TxAfter(capsule, atts, Len(atts) + 2)
    ELSE [ok |-> FALSE, error |-> StatementError(failAt, Len(atts)),
          capsules |-> capsules, attachments |-> attachments]

\* a bug: the attachment delete is not rolled back when no capsule row matches
deleteCapsule_noRollback(capsuleId, ownerId, fail) ==
    LET afterAttachments == {a \in attachments : a.capsule_id # capsuleId}
        hit == {id \in DOMAIN capsules :
                   id = capsuleId /\ capsules[id].owner_id = ownerId}
        afterCapsule == [id \in DOMAIN capsules \ hit |-> capsules[id]]
    IN  IF fail THEN [threw |-> TRUE, deleted |-> FALSE,
                      capsules |-> capsules, attachments |-> attachments]
        ELSE [threw |-> FALSE, deleted |-> hit # {},
              capsules |-> afterCapsule, attachments |-> afterAttachments]

\* a bug: only the capsule row is deleted, its attachment rows stay
deleteCapsule_orphans(capsuleId, ownerId, fail) ==
    LET hit == {id \in DOMAIN capsules :
                   id = capsuleId /\ capsules[id].owner_id = ownerId}
        afterCapsule == [id \in DOMAIN capsules \ hit |-> capsules[id]]
    IN  IF fail THEN [threw |-> TRUE, deleted |-> FALSE,
                      capsules |-> capsules, attachments |-> attachments]
        ELSE [threw |-> FALSE, deleted |-> hit # {},
              capsules |-> afterCapsule, attachments |-> attachments]

\* deleteCapsule: the attachment delete, then the capsule delete scoped by id
\* and owner, in one transaction; it is rolled back when the capsule delete
\* affects no row (returns false) or a statement throws (fail), else committed.
deleteCapsule(capsuleId, ownerId, fail) ==
    LET afterAttachments == {a \in attachments : a.capsule_id # capsuleId}
        hit == {id \in DOMAIN capsules :
                   id = capsuleId /\ capsules[id].owner_id = ownerId}
        rowsAffected == Cardinality(hit)
        afterCapsule == [id \in DOMAIN capsules \ hit |-> capsules[id]]
        rolledBack == [capsules |-> capsules, attachments |-> attachments]
    IN  IF fail THEN [threw |-> TRUE, deleted |-> FALSE] @@ rolledBack
        ELSE IF rowsAffected = 0
        THEN [threw |-> FALSE, deleted |-> FALSE] @@ rolledBack
        ELSE [threw |-> FALSE, deleted |-> TRUE,
              capsules |-> afterCapsule, attachments |-> afterAttachments]

\* ------------------------------------- services/capsuleService, operations
\* A service call's outcome: err is the statusCode of the error thrown (0: it
\* returned), status and capsule are the returned object's fields (capsule is
\* a list: empty when the key is absent), and for the writing calls the store
\* afterwards.
Threw(statusCode, message) ==
    [err |-> statusCode, status |-> message, capsule |-> <<>>]
Returned(status, capsule) ==
    [err |-> 0, status |-> status, capsule |-> capsule]

\* a bug: the passphrase is hashed whether or not one was given
createCapsule_alwaysHash(payload, ownerId, uuid, failAt) ==
    LET unchanged == [capsules |-> capsules, attachments |-> attachments]
        revealAt == payload.revealAt
        isLocked == Truthy(payload.passphrase)
        capsule == [id |-> uuid, title |-> payload.title,
                    message |-> payload.message, author |-> Null,
                    ownerId |-> ownerId, createdAt |-> now,
                    revealAt |-> revealAt, isLocked |-> isLocked,
                    passphraseHash |-> BcryptHash(payload.passphrase)]
        atts == [i \in DOMAIN payload.attachments |->
                    normalizeAttachmentForStorage(payload.attachments[i], i, uuid, now)]
        saved == saveCapsule(capsule, atts, failAt)
    IN  IF ~assertOwner(ownerId) THEN Threw(401, "OwnerRequired") @@ unchanged
        ELSE IF ~saved.ok
        THEN Threw(500, saved.error) @@ Without(saved, {"ok", "error"})
        ELSE Returned("created",
                 <<messageAvailableFlag(Ext(capsule, "attachments", atts),
                                        ~isLocked /\ revealAt <= now)>>)
             @@ Without(saved, {"ok", "error"})

createCapsule(payload, ownerId, uuid, failAt) ==
    LET unchanged == [capsules |-> capsules, attachments |-> attachments]
        revealAt == payload.revealAt
        isLocked == Truthy(payload.passphrase)
        passphraseHash == IF isLocked THEN BcryptHash(payload.passphrase) ELSE Null
        capsule == [id |-> uuid, title |-> payload.title,
                    message |-> payload.message, author |-> Null,
                    ownerId |-> ownerId, createdAt |-> now,
                    revealAt |-> revealAt, isLocked |-> isLocked,
                    passphraseHash |-> passphraseHash]
        atts == [i \in DOMAIN payload.attachments |->
                    normalizeAttachmentForStorage(payload.attachments[i], i, uuid, now)]
        saved == saveCapsule(capsule, atts, failAt)
        capsuleWithAttachments == Ext(capsule, "attachments", atts)
    IN  IF ~assertOwner(ownerId) THEN Threw(401, "OwnerRequired") @@ unchanged
        ELSE IF ~saved.ok
        THEN Threw(500, saved.error) @@ Without(saved, {"ok", "error"})
        ELSE Returned("created",
                 <<messageAvailableFlag(capsuleWithAttachments,
                                        ~isLocked /\ revealAt <= now)>>)
             @@ Without(saved, {"ok", "error"})

\* a bug: the entry keeps the message whenever the gate lets it through
Summary_gated(capsule) ==
    LET revealReached == capsule.revealAt <= now
        messageAvailable == revealReached /\ ~capsule.isLocked
        sanitized == messageAvailableFlag(capsule, messageAvailable)
    IN  Ext(sanitized, "isRevealed", revealReached)

\* one listing entry
Summary(capsule) ==
    LET revealReached == capsule.revealAt <= now
        messageAvailable == revealReached /\ ~capsule.isLocked
        sanitized == messageAvailableFlag(capsule, messageAvailable)
    IN  Ext(Without(sanitized, {"message"}), "isRevealed", revealReached)

listCapsuleSummaries(ownerId) ==
    IF ~assertOwner(ownerId) THEN {Threw(401, "OwnerRequired")}
    ELSE {Returned("ok", [i \in DOMAIN cs |-> Summary(cs[i])]) :
             cs \in getCapsulesByOwner(ownerId)}

\* a bug: the time gate is consulted before the passphrase gate
getCapsuleStatus_timeFirst(id, ownerId) ==
    IF ~assertOwner(ownerId) THEN {Threw(401, "OwnerRequired")}
    ELSE IF getCapsuleById(id, ownerId) = {} THEN {Returned("not_found", <<>>)}
    ELSE {LET revealReached == capsule.revealAt <= now
          IN  IF revealReached
              THEN Returned("available", <<messageAvailableFlag(capsule, TRUE)>>)
              ELSE IF capsule.isLocked
              THEN Returned("locked", <<messageAvailableFlag(capsule, FALSE)>>)
              ELSE Returned("not_revealed", <<messageAvailableFlag(capsule, FALSE)>>) :
          capsule \in getCapsuleById(id, ownerId)}

\* a bug: a capsule whose reveal time is still ahead is served in full
getCapsuleStatus_early(id, ownerId) ==
    IF ~assertOwner(ownerId) THEN {Threw(401, "OwnerRequired")}
    ELSE IF getCapsuleById(id, ownerId) = {} THEN {Returned("not_found", <<>>)}
    ELSE {IF capsule.isLocked
          THEN Returned("locked", <<messageAvailableFlag(capsule, FALSE)>>)
          ELSE IF capsule.revealAt > now
          THEN Returned("not_revealed", <<messageAvailableFlag(capsule, TRUE)>>)
          ELSE Returned("available", <<messageAvailableFlag(capsule, TRUE)>>) :
          capsule \in getCapsuleById(id, ownerId)}

\* a bug: the reveal instant itself does not count as reached (< for <=)
getCapsuleStatus_strict(id, ownerId) ==
    IF ~assertOwner(ownerId) THEN {Threw(401, "OwnerRequired")}
    ELSE IF getCapsuleById(id, ownerId) = {} THEN {Returned("not_found", <<>>)}
    ELSE {LET revealReached == capsule.revealAt < now
          IN  IF capsule.isLocked
              THEN Returned("locked", <<messageAvailableFlag(capsule, FALSE)>>)
              ELSE IF ~revealReached
              THEN Returned("not_revealed", <<messageAvailableFlag(capsule, FALSE)>>)
              ELSE Returned("available", <<messageAvailableFlag(capsule, TRUE)>>) :
          capsule \in getCapsuleById(id, ownerId)}

getCapsuleStatus(id, ownerId) ==
    IF ~assertOwner(ownerId) THEN {Threw(401, "OwnerRequired")}
    ELSE IF getCapsuleById(id, ownerId) = {} THEN {Returned("not_found", <<>>)}
    ELSE {LET revealReached == capsule.revealAt <= now
          IN  IF capsule.isLocked
              THEN Returned("locked", <<messageAvailableFlag(capsule, FALSE)>>)
              ELSE IF ~revealReached
              THEN Returned("not_revealed", <<messageAvailableFlag(capsule, FALSE)>>)
              ELSE Returned("available", <<messageAvailableFlag(capsule, TRUE)>>) :
          capsule \in getCapsuleById(id, ownerId)}

\* a bug: a passphrase opens a capsule that is not locked before its time
unlockCapsule_passphraseReveals(id, passphrase, ownerId) ==
    IF ~assertOwner(ownerId) THEN {Threw(401, "OwnerRequired")}
    ELSE IF getCapsuleById(id, ownerId) = {} THEN {Returned("not_found", <<>>)}
    ELSE {IF ~capsule.isLocked
          THEN IF capsule.revealAt <= now \/ Truthy(passphrase)
               THEN Returned("available", <<messageAvailableFlag(capsule, TRUE)>>)
               ELSE Returned("not_revealed", <<messageAvailableFlag(capsule, FALSE)>>)
          ELSE IF capsule.passphraseHash = Null
          THEN Returned("invalid_passphrase", <<messageAvailableFlag(capsule, FALSE)>>)
          ELSE IF ~BcryptCompare(passphrase, capsule.passphraseHash)
          THEN Returned("invalid_passphrase", <<messageAvailableFlag(capsule, FALSE)>>)
          ELSE Returned("unlocked", <<messageAvailableFlag(capsule, TRUE)>>) :
          capsule \in getCapsuleById(id, ownerId)}

\* a bug: a locked capsule whose reveal time has passed accepts any passphrase
unlockCapsule_lenient(id, passphrase, ownerId) ==
    IF ~assertOwner(ownerId) THEN {Threw(401, "OwnerRequired")}
    ELSE IF getCapsuleById(id, ownerId) = {} THEN {Returned("not_found", <<>>)}
    ELSE {IF ~capsule.isLocked
          THEN IF capsule.revealAt <= now
               THEN Returned("available", <<messageAvailableFlag(capsule, TRUE)>>)
               ELSE Returned("not_revealed", <<messageAvailableFlag(capsule, FALSE)>>)
          ELSE IF capsule.passphraseHash = Null
          THEN Returned("invalid_passphrase", <<messageAvailableFlag(capsule, FALSE)>>)
          ELSE IF ~BcryptCompare(passphrase, capsule.passphraseHash)
                  /\ capsule.revealAt > now
          THEN Returned("invalid_passphrase", <<messageAvailableFlag(capsule, FALSE)>>)
          ELSE Returned("unlocked", <<messageAvailableFlag(capsule, TRUE)>>) :
          capsule \in getCapsuleById(id, ownerId)}

unlockCapsule(id, passphrase, ownerId) ==
    IF ~assertOwner(ownerId) THEN {Threw(401, "OwnerRequired")}
    ELSE IF getCapsuleById(id, ownerId) = {} THEN {Returned("not_found", <<>>)}
    ELSE {IF ~capsule.isLocked
          THEN IF capsule.revealAt <= now
               THEN Returned("available", <<messageAvailableFlag(capsule, TRUE)>>)
               ELSE Returned("not_revealed", <<messageAvailableFlag(capsule, FALSE)>>)
          ELSE IF capsule.passphraseHash = Null
          THEN Returned("invalid_passphrase", <<messageAvailableFlag(capsule, FALSE)>>)
          ELSE IF ~BcryptCompare(passphrase, capsule.passphraseHash)
          THEN Returned("invalid_passphrase", <<messageAvailableFlag(capsule, FALSE)>>)
          ELSE Returned("unlocked", <<messageAvailableFlag(capsule, TRUE)>>) :
          capsule \in getCapsuleById(id, ownerId)}

\* capsuleService.deleteCapsule, which routes/capsuleRoutes.js calls: owner
\* check, then the store's owner-scoped delete
serviceDeleteCapsule(id, ownerId, fail) ==
    LET unchanged == [capsules |-> capsules, attachments |-> attachments]
        done == deleteCapsule(id, ownerId, fail)
        store == [capsules |-> done.capsules, attachments |-> done.attachments]
    IN  IF ~assertOwner(ownerId) THEN Threw(401, "OwnerRequired") @@ unchanged
        ELSE IF done.threw THEN Threw(500, "delete failed") @@ store
        ELSE IF done.deleted THEN Returned("deleted", <<>>) @@ store
        ELSE Returned("not_found", <<>>) @@ store

\* ---------------------------------------------------- routes/capsuleRoutes
\* z.array(attachmentSchema).max(5)
MaxAttachments == 5

posterSchema(poster) ==
    /\ Truthy(Get(poster, "fileName", NullStr))
    /\ Get(poster, "contentType", NullStr) \in ImageTypes \cup VideoTypes
    /\ Get(poster, "size", NullNum) >= 1
    /\ Get(poster, "width", 1) \in 1..8000
    /\ Get(poster, "height", 1) \in 1..8000
    /\ "fileId" \in DOMAIN poster => Truthy(poster.fileId)

attachmentSchema(attachment) ==
    /\ Get(attachment, "mediaType", "image") \in {"image", "video"}
    /\ Truthy(Get(attachment, "fileName", NullStr))
    /\ Truthy(Get(attachment, "contentType", NullStr))
    /\ Get(attachment, "size", NullNum) >= 1
    /\ Get(attachment, "width", 1) \in 1..8000
    /\ Get(attachment, "height", 1) \in 1..8000
    /\ "fileId" \in DOMAIN attachment => Truthy(attachment.fileId)
    /\ Get(attachment, "durationSeconds", 1) > 0
    /\ Get(attachment, "bitrate", 1) > 0
    /\ "poster" \in DOMAIN attachment => posterSchema(attachment.poster)

\* a bug: the attachment list has no maximum length
createCapsuleSchema_unbounded(payload) ==
    /\ Truthy(payload.title) /\ Truthy(payload.message)
    /\ \A i \in DOMAIN payload.attachments :
          attachmentSchema(payload.attachments[i])

\* handleValidation(createCapsuleSchema, req.body) succeeds
createCapsuleSchema(payload) ==
    /\ Truthy(payload.title) /\ Truthy(payload.message)
    /\ Len(payload.attachments) <= MaxAttachments
    /\ \A i \in DOMAIN payload.attachments :
          attachmentSchema(payload.attachments[i])

Response(op, caller, id, http, body) ==
    [op |-> op, caller |-> caller, id |-> id, http |-> http, body |-> body]

\* the error middleware of index.js: statusCode and message of the error
ErrorResponse(op, caller, id, r) ==
    Response(op, caller, id, r.err, [error |-> r.status])

NoResponse == Response("none", NoOwner, 0, 0, <<>>)

\* no upload request is being handled; id is the last upload request's number
Idle(id) == [id |-> id, pc |-> "idle", tempFiles |-> <<>>, trace |-> <<>>]

\* ---------------------------------------------------- services/b2Service
\* The clock counts units of ten minutes: the cache window of 20 minutes is
\* two units.
AUTH_CACHE_WINDOW_MS == 2

AuthCallers == {"c1", "c2"}     \* concurrent callers of authorize()

\* auth.data of one answer of b2.authorize(): the model tells credentials
\* apart by when the call that obtained them read the clock and when the
\* object store issued them
Credential(requestedAt, issuedAt) ==
    [requestedAt |-> requestedAt, issuedAt |-> issuedAt]

NotCalling == [pc |-> "idle", now |-> 0]

\* !force && authorization && now - lastAuthorizedAt < AUTH_CACHE_WINDOW_MS
ServedFromCache(force, t) ==
    ~force /\ authorization # Null /\ t - lastAuthorizedAt < AUTH_CACHE_WINDOW_MS

\* a bug: a credential exactly as old as the window is still served
ServedFromCache_inclusive(force, t) ==
    ~force /\ authorization # Null /\ t - lastAuthorizedAt <= AUTH_CACHE_WINDOW_MS

\* authorize() called inside a handler that no other caller interleaves with:
\* the cache afterwards, b2.authorize() answering (authorized) or throwing
B2Call(authorized) ==
    /\ IF ServedFromCache(FALSE, now) \/ ~authorized
       THEN UNCHANGED <<authorization, lastAuthorizedAt>>
       ELSE /\ authorization' = Credential(now, now)
            /\ lastAuthorizedAt' = now
    /\ UNCHANGED calls

\* a call of a b2Service function that returned (ok) or threw; when it threw,
\* authorize() had answered or was what threw
B2Service(ok) ==
    IF ok THEN B2Call(TRUE) ELSE \E authorized \in BOOLEAN : B2Call(authorized)

\* ---------------------------------------------------------- transactions
Requests == {"r1", "r2"}        \* concurrent creation requests
\* no transaction open; outcome is how the request's last transaction ended
NoTx == [pc |-> "idle", outcome |-> "none", capsule |-> Null, atts |-> <<>>,
         ran |-> 0]

Init ==
    /\ authorization = Null
    /\ lastAuthorizedAt = 0
    /\ calls = [c \in AuthCallers |-> NotCalling]
    /\ txs = [r \in Requests |-> NoTx]
    /\ capsules = <<>>
    /\ attachments = {}
    /\ now = 0
    /\ nextId = 1
    /\ response = NoResponse
    /\ video = Idle(0)
    /\ disk = {}
    /\ bucket = {}

\* time passes between requests
Tick ==
    /\ now < MaxTime
    /\ now' = now + 1
    /\ UNCHANGED <<capsules, attachments, nextId, response>>
    /\ UNCHANGED <<mediaVars, b2Vars, txs>>

\* the handler of POST /: validation, then the service, then the response
HandlePostCapsule(caller, payload, failAt) ==
    /\ failAt \in 0..(Len(payload.attachments) + 2)
    /\ IF ~createCapsuleSchema(payload)
       THEN /\ response' = Response("create", caller, nextId, 400,
                                    [error |-> "ValidationError"])
            /\ UNCHANGED <<capsules, attachments, nextId>>
       ELSE LET r == createCapsule(payload, caller, nextId, failAt)
            IN  /\ capsules' = r.capsules
                /\ attachments' = r.attachments
                /\ nextId' = IF r.err = 0 THEN nextId + 1 ELSE nextId
                /\ response' = IF r.err # 0
                               THEN ErrorResponse("create", caller, nextId, r)
                               ELSE Response("create", caller, nextId, 201,
                                             [data |-> r.capsule[1]])
    /\ UNCHANGED now
    /\ UNCHANGED <<mediaVars, b2Vars, txs>>

\* POST /
PostCapsule(caller, payload, failAt) ==
    /\ nextId <= MaxCapsules
    /\ HandlePostCapsule(caller, payload, failAt)

\* GET /
GetCapsules(caller) ==
    /\ \E r \in listCapsuleSummaries(caller) :
          response' = IF r.err # 0 THEN ErrorResponse("list", caller, 0, r)
                      ELSE Response("list", caller, 0, 200, [data |-> r.capsule])
    /\ UNCHANGED capsuleVars
    /\ UNCHANGED <<mediaVars, b2Vars, txs>>

\* GET /:id
GetCapsule(id, caller) ==
    /\ \E r \in getCapsuleStatus(id, caller) :
          response' =
             IF r.err # 0 THEN ErrorResponse("get", caller, id, r)
             ELSE IF r.status = "not_found"
             THEN Response("get", caller, id, 404, [error |-> "CapsuleNotFound"])
             ELSE IF r.status = "available"
             THEN Response("get", caller, id, 200, [data |-> r.capsule[1]])
             ELSE Response("get", caller, id, 403,
                           [error |-> r.status, data |-> r.capsule[1]])
    /\ UNCHANGED capsuleVars
    /\ UNCHANGED <<mediaVars, b2Vars, txs>>

\* a bug: a successful unlock clears the lock in the store
PostUnlock_persist(id, passphrase, caller) ==
    /\ Truthy(passphrase)
    /\ \E r \in unlockCapsule(id, passphrase, caller) :
          /\ r.err = 0 /\ r.status = "unlocked"
          /\ response' = Response("unlock", caller, id, 200,
                                  [data |-> r.capsule[1], status |-> r.status])
          /\ capsules' = [capsules EXCEPT ![id].is_locked = 0,
                                          ![id].passphrase_hash = Null]
    /\ UNCHANGED <<attachments, now, nextId>>
    /\ UNCHANGED <<mediaVars, b2Vars, txs>>

\* POST /:id/unlock  (unlockSchema: the passphrase has at least one character)
PostUnlock(id, passphrase, caller) ==
    /\ IF ~Truthy(passphrase)
       THEN response' = Response("unlock", caller, id, 400,
                                 [error |-> "ValidationError"])
       ELSE \E r \in unlockCapsule(id, passphrase, caller) :
          response' =
             IF r.err # 0 THEN ErrorResponse("unlock", caller, id, r)
             ELSE IF r.status = "not_found"
             THEN Response("unlock", caller, id, 404, [error |-> "CapsuleNotFound"])
             ELSE IF r.status \in {"unlocked", "available"}
             THEN Response("unlock", caller, id, 200,
                           [data |-> r.capsule[1], status |-> r.status])
             ELSE Response("unlock", caller, id, 403,
                           [error |-> r.status, data |-> r.capsule[1]])
    /\ UNCHANGED capsuleVars
    /\ UNCHANGED <<mediaVars, b2Vars, txs>>

\* DELETE /:id
DeleteCapsule(id, caller, fail) ==
    /\ LET r == serviceDeleteCapsule(id, caller, fail)
       IN  /\ capsules' = r.capsules
           /\ attachments' = r.attachments
           /\ response' =
                IF r.err # 0 THEN ErrorResponse("delete", caller, id, r)
                ELSE IF r.status = "not_found"
                THEN Response("delete", caller, id, 404, [error |-> "CapsuleNotFound"])
                ELSE Response("delete", caller, id, 204, <<>>)
    /\ UNCHANGED <<now, nextId>>
    /\ UNCHANGED <<mediaVars, b2Vars, txs>>

Next ==
    \/ Tick
    \/ \E caller \in Callers, payload \in Payloads :
          \E failAt \in 0..(Len(payload.attachments) + 2) :
             PostCapsule(caller, payload, failAt)
    \/ \E caller \in Callers : GetCapsules(caller)
    \/ \E id \in CapsuleIds, caller \in Callers : GetCapsule(id, caller)
    \/ \E id \in CapsuleIds, caller \in Callers,
          passphrase \in Passphrases \cup {NoPassphrase} :
          PostUnlock(id, passphrase, caller)
    \/ \E id \in CapsuleIds, caller \in Callers, fail \in BOOLEAN :
          DeleteCapsule(id, caller, fail)

Spec == Init /\ [][Next]_vars

\* ---------------------------------------------- the media-attachment runs
\* attachment descriptors as the upload endpoints hand them to the client
ImageDescriptor == Ext(Descriptor, "mediaType", "image")
PosterDescriptor == [fileName |-> "images/p.webp", contentType |-> "image/webp",
                     size |-> 2, width |-> 2, height |-> 1, fileId |-> "f3"]
VideoDescriptor == [mediaType |-> "video", fileName |-> "videos/v.mp4",
                    contentType |-> "video/mp4", size |-> 20, width |-> 8,
                    height |-> 6, fileId |-> "f2", durationSeconds |-> 5,
                    bitrate |-> 7, poster |-> PosterDescriptor]
ImageWithPoster == Ext(ImageDescriptor, "poster", PosterDescriptor)
VideoWithoutPoster == Without(VideoDescriptor, {"poster"})
MediaDescriptors == {ImageDescriptor, VideoDescriptor, ImageWithPoster,
                     VideoWithoutPoster}

\* the attachment lists of the media-attachment runs: none, one of each kind,
\* an image with a video, and lists longer than the schema admits
MediaLists == {<<>>, <<ImageDescriptor, VideoDescriptor>>}
              \cup {<<d>> : d \in MediaDescriptors}
LongLists == {[i \in 1..n |-> ImageDescriptor] : n \in (MaxAttachments + 1)..MaxDescriptors}
MediaPayloads == [title : {"t"}, message : Messages, revealAt : {0},
                  passphrase : {NoPassphrase},
                  attachments : MediaLists \cup LongLists]
StoreIds == 1..MaxStored

\* alice creates capsules that are due at once and carry image and video
\* attachments; alice and bob read and delete them
PostMediaCapsule(payload, failAt) ==
    /\ nextId <= MaxStored
    /\ HandlePostCapsule("alice", payload, failAt)

StoreNext ==
    \/ \E payload \in MediaPayloads :
          \E failAt \in 0..(Len(payload.attachments) + 2) :
             PostMediaCapsule(payload, failAt)
    \/ \E id \in StoreIds, caller \in Owners : GetCapsule(id, caller)
    \/ \E id \in StoreIds, caller \in Owners, fail \in BOOLEAN :
          DeleteCapsule(id, caller, fail)

StoreSpec == Init /\ [][StoreNext]_vars

\* -------------------------------------------------------- routes/media
\* One video-processing request is handled at a time; each await of the
\* handler is one step, which succeeds or throws.
MaxUploads == 2         \* upload requests ever made
\* limits.fileSize of videoUpload and of imageUpload, as configured by
\* MEDIA_MAX_VIDEO_BYTES and MEDIA_MAX_IMAGE_BYTES
MAX_VIDEO_BYTES == 2
MAX_IMAGE_BYTES == 1
\* MEDIA_MAX_IMAGE_RES, 'MAX_WIDTHxMAX_HEIGHT'
MAX_WIDTH == 3
MAX_HEIGHT == 2
MaxPixels == 4          \* the widest and the tallest image uploaded

SUPPORTED_VIDEO_TYPES == {"video/mp4"}
\* the uploaded part: req.file is undefined when the part is missing
NoFile == [size |-> 0, mimetype |-> ""]
VideoUploads == {NoFile} \cup [size : 1..(MAX_VIDEO_BYTES + 1),
                               mimetype : {"video/mp4", "video/x-flv", "image/webp"}]
\* an image part also has the pixel size of its raw data and an EXIF
\* orientation: 1 upright, 3 turned by a half turn, 6 by a quarter turn
ImageUploads == {NoFile} \cup [size : 1..(MAX_IMAGE_BYTES + 1),
                               mimetype : {"image/webp", "video/mp4"},
                               width : 1..MaxPixels, height : 1..MaxPixels,
                               orientation : {1, 3, 6}]

\* scratch path and object key of a request
ScratchPath(id, kind) == <<id, kind>>
ObjectKey(id, kind) == <<id, kind>>

\* multer's single(): a part larger than limits.fileSize makes the middleware
\* call next(MulterError LIMIT_FILE_SIZE); the route handler is not entered
\* and the error middleware answers with err.statusCode || 500
MulterRejects(file, limit) == file.size > limit
MulterResponse(op, id) ==
    Response(op, "alice", id, 500, [error |-> "File too large"])

\* cleanupFiles: unlink every path, errors of unlink ignored
\* a bug: only the raw input is unlinked
cleanupFiles_inputOnly(paths) ==
    disk \ {paths[i] : i \in DOMAIN paths \cap {1}}

cleanupFiles(paths) == disk \ {paths[i] : i \in DOMAIN paths}

\* a step that writes a scratch file: it succeeds, or throws leaving the file
\* partly written (partial) or not at all
ScratchStep(stage, kind, next, pushed, ok, partial) ==
    /\ video.pc = stage
    /\ LET path == ScratchPath(video.id, kind)
           traced == [video EXCEPT !.trace = Append(@, stage)]
       IN  IF ok
           THEN /\ disk' = disk \cup {path}
                /\ video' = [traced EXCEPT !.pc = next,
                                           !.tempFiles = @ \o pushed]
                /\ UNCHANGED response
           ELSE /\ disk' = IF partial THEN disk \cup {path} ELSE disk
                /\ response' = Response("video", "alice", video.id, 500,
                                        [error |-> stage])
                /\ video' = [traced EXCEPT !.pc = "cleanup"]
    /\ UNCHANGED <<bucket, capsuleVars, b2Vars, txs>>

\* a step that touches no scratch file: it succeeds, storing the objects
\* uploaded, or throws; a step that uploads is a call of b2Service
PlainStep(stage, next, uploaded, ok) ==
    /\ video.pc = stage
    /\ LET traced == [video EXCEPT !.trace = Append(@, stage)]
       IN  IF ok
           THEN /\ bucket' = bucket \cup uploaded
                /\ video' = [traced EXCEPT !.pc = next]
                /\ UNCHANGED response
           ELSE /\ response' = Response("video", "alice", video.id, 500,
                                        [error |-> stage])
                /\ video' = [traced EXCEPT !.pc = "cleanup"]
                /\ UNCHANGED bucket
    /\ IF uploaded # {} THEN B2Service(ok) ELSE UNCHANGED b2Vars
    /\ UNCHANGED <<disk, capsuleVars, txs>>

\* a bug: the size limit is applied only after the raw input was written to
\* its scratch file
VideoUpload_lateLimit(file) ==
    /\ video.pc = "idle" /\ video.id < MaxUploads
    /\ LET id == video.id + 1
           rejected(message) ==
              /\ response' = Response("video", "alice", id, 400,
                                      [error |-> message])
              /\ video' = [Idle(id) EXCEPT !.pc = "cleanup"]
              /\ UNCHANGED disk
       IN  IF MulterRejects(file, MAX_VIDEO_BYTES)
           THEN /\ response' = MulterResponse("video", id)
                /\ disk' = disk \cup {ScratchPath(id, "input")}
                /\ video' = [Idle(id) EXCEPT !.pc = "cleanup",
                                !.tempFiles = <<ScratchPath(id, "input")>>,
                                !.trace = <<"write">>]
           ELSE IF file = NoFile THEN rejected("VideoFileRequired")
           ELSE IF file.mimetype \notin VideoTypes
           THEN rejected("UnsupportedVideoType")
           ELSE IF file.mimetype \notin SUPPORTED_VIDEO_TYPES
           THEN rejected("UnsupportedVideoType")
           ELSE /\ video' = [Idle(id) EXCEPT !.pc = "write",
                                !.tempFiles = <<ScratchPath(id, "input")>>]
                /\ UNCHANGED <<response, disk>>
    /\ UNCHANGED <<bucket, capsuleVars, b2Vars, txs>>

\* POST /videos/process up to the first await: videoUpload.single('video'),
\* then the handler's checks of req.file
VideoUpload(file) ==
    /\ video.pc = "idle" /\ video.id < MaxUploads
    /\ LET id == video.id + 1
           rejected(message) ==
              /\ response' = Response("video", "alice", id, 400,
                                      [error |-> message])
              /\ video' = [Idle(id) EXCEPT !.pc = "cleanup"]
       IN  IF MulterRejects(file, MAX_VIDEO_BYTES)
           THEN /\ response' = MulterResponse("video", id)
                /\ video' = Idle(id)
           ELSE IF file = NoFile THEN rejected("VideoFileRequired")
           ELSE IF file.mimetype \notin VideoTypes
           THEN rejected("UnsupportedVideoType")
           ELSE IF file.mimetype \notin SUPPORTED_VIDEO_TYPES
           THEN rejected("UnsupportedVideoType")
           ELSE /\ video' = [Idle(id) EXCEPT !.pc = "write",
                                !.tempFiles = <<ScratchPath(id, "input")>>]
                /\ UNCHANGED response
    /\ UNCHANGED <<disk, bucket, capsuleVars, b2Vars, txs>>

\* await fs.writeFile(inputPath, req.file.buffer)
WriteInput(ok, partial) ==
    ScratchStep("write", "input", "transcode",
                <<ScratchPath(video.id, "optimized")>>, ok, partial)

\* a bug: a failed transcode is tried once more
TranscodeToMp4_retry(ok, partial) ==
    IF ~ok /\ video.pc = "transcode" /\ "transcode" \notin
                 {video.trace[i] : i \in DOMAIN video.trace}
    THEN /\ video' = [video EXCEPT !.trace = Append(@, "transcode")]
         /\ disk' = IF partial
                    THEN disk \cup {ScratchPath(video.id, "optimized")}
                    ELSE disk
         /\ UNCHANGED <<response, bucket, capsuleVars, b2Vars, txs>>
    ELSE ScratchStep("transcode", "optimized", "poster",
                     <<ScratchPath(video.id, "poster")>>, ok, partial)

\* await transcodeToMp4(inputPath, optimizedPath)
TranscodeToMp4(ok, partial) ==
    ScratchStep("transcode", "optimized", "poster",
                <<ScratchPath(video.id, "poster")>>, ok, partial)

\* await extractPosterFrame(optimizedPath, posterPath)
ExtractPosterFrame(ok, partial) ==
    ScratchStep("poster", "poster", "probe", <<>>, ok, partial)

\* await ffprobeAsync(optimizedPath)
Probe(ok) == PlainStep("probe", "read", {}, ok)

\* await fs.readFile of both outputs, sharp(posterBuffer).metadata()
ReadOutputs(ok) == PlainStep("read", "uploadVideo", {}, ok)

\* await b2Service.uploadBinaryAsset of the transcoded video
UploadVideo(ok) ==
    PlainStep("uploadVideo", "uploadPoster", {ObjectKey(video.id, "video")}, ok)

\* await b2Service.uploadBinaryAsset of the poster
UploadPoster(ok) ==
    PlainStep("uploadPoster", "sign", {ObjectKey(video.id, "poster")}, ok)

\* await getPrivateDownloadInfo of both objects, then res.status(201)
SignDownloads(ok) ==
    /\ video.pc = "sign"
    /\ response' =
          IF ok
          THEN Response("video", "alice", video.id, 201,
                        [data |-> [mediaType |-> "video",
                                   fileName |-> ObjectKey(video.id, "video"),
                                   poster |-> [fileName |->
                                                 ObjectKey(video.id, "poster")]]])
          ELSE Response("video", "alice", video.id, 500, [error |-> "sign"])
    /\ video' = [video EXCEPT !.pc = "cleanup", !.trace = Append(@, "sign")]
    /\ B2Service(ok)
    /\ UNCHANGED <<disk, bucket, capsuleVars, txs>>

\* the finally block: await cleanupFiles(tempFiles); the handler has finished
CleanupFiles ==
    /\ video.pc = "cleanup"
    /\ disk' = cleanupFiles(video.tempFiles)
    /\ video' = [video EXCEPT !.pc = "idle"]
    /\ UNCHANGED <<response, bucket, capsuleVars, b2Vars, txs>>

\* a / b rounded to the nearest integer, at least 1 (b > 0)
RoundDiv(a, b) ==
    LET q == (2 * a + b) \div (2 * b) IN IF q < 1 THEN 1 ELSE q

\* sharp(buffer).metadata(): the size of the raw pixel data; the EXIF
\* orientation is reported, not applied
sharpMetadata(file) == [width |-> file.width, height |-> file.height]

\* .rotate() without an angle: the image is turned as its EXIF orientation
\* says; the orientations 5 to 8 exchange width and height
sharpRotate(image) ==
    IF image.orientation \in 5..8
    THEN [width |-> image.height, height |-> image.width]
    ELSE [width |-> image.width, height |-> image.height]

\* a bug: the image is stretched to the box when it is smaller
sharpResizeInside_enlarging(image, maxWidth, maxHeight) ==
    IF image.width * maxHeight >= image.height * maxWidth
    THEN [width |-> maxWidth,
          height |-> RoundDiv(image.height * maxWidth, image.width)]
    ELSE [width |-> RoundDiv(image.width * maxHeight, image.height),
          height |-> maxHeight]

\* .resize({ width, height, fit: 'inside', withoutEnlargement: true }): the
\* largest size of the same aspect ratio within the box, never above the
\* image's own size
sharpResizeInside(image, maxWidth, maxHeight) ==
    IF image.width <= maxWidth /\ image.height <= maxHeight
    THEN [width |-> image.width, height |-> image.height]
    ELSE IF image.width * maxHeight >= image.height * maxWidth
    THEN [width |-> maxWidth,
          height |-> RoundDiv(image.height * maxWidth, image.width)]
    ELSE [width |-> RoundDiv(image.width * maxHeight, image.height),
          height |-> maxHeight]

\* the descriptor of the 201 answer of /images/compress
ImageDescriptorOf(file, fileName) ==
    LET originalMeta == sharpMetadata(file)
        info == sharpResizeInside(sharpRotate(file), MAX_WIDTH, MAX_HEIGHT)
    IN  [fileName |-> fileName, contentType |-> "image/webp",
         width |-> info.width, height |-> info.height,
         original |-> [width |-> originalMeta.width,
                       height |-> originalMeta.height]]

\* POST /images/compress: imageUpload.single('image'), then the handler, in
\* which step failAt throws (1 sharp, 2 the upload, 3 the signed download)
ImageCompress(file, failAt) ==
    /\ video.pc = "idle" /\ video.id < MaxUploads
    /\ LET id == video.id + 1
           answer(http, body) == Response("image", "alice", id, http, body)
           uploaded == ~MulterRejects(file, MAX_IMAGE_BYTES)
                       /\ file.mimetype \in ImageTypes /\ failAt \in {0, 3}
       IN  /\ response' =
                IF MulterRejects(file, MAX_IMAGE_BYTES)
                THEN MulterResponse("image", id)
                ELSE IF file = NoFile
                THEN answer(400, [error |-> "ImageFileRequired"])
                ELSE IF file.mimetype \notin ImageTypes
                THEN answer(400, [error |-> "UnsupportedImageType"])
                ELSE IF failAt = 1 THEN answer(500, [error |-> "sharp"])
                ELSE IF failAt = 2 THEN answer(500, [error |-> "upload"])
                ELSE IF failAt = 3 THEN answer(500, [error |-> "sign"])
                ELSE answer(201, [data |-> ImageDescriptorOf(
                                              file, ObjectKey(id, "image"))])
           /\ bucket' = IF uploaded THEN bucket \cup {ObjectKey(id, "image")}
                        ELSE bucket
           /\ video' = Idle(id)
           /\ IF MulterRejects(file, MAX_IMAGE_BYTES)
                 \/ file.mimetype \notin ImageTypes \/ failAt = 1
              THEN UNCHANGED b2Vars
              ELSE B2Service(failAt # 2)
    /\ UNCHANGED <<disk, capsuleVars, txs>>

MediaNext ==
    \/ \E file \in VideoUploads : VideoUpload(file)
    \/ \E ok, partial \in BOOLEAN : WriteInput(ok, partial)
    \/ \E ok, partial \in BOOLEAN : TranscodeToMp4(ok, partial)
    \/ \E ok, partial \in BOOLEAN : ExtractPosterFrame(ok, partial)
    \/ \E ok \in BOOLEAN : Probe(ok)
    \/ \E ok \in BOOLEAN : ReadOutputs(ok)
    \/ \E ok \in BOOLEAN : UploadVideo(ok)
    \/ \E ok \in BOOLEAN : UploadPoster(ok)
    \/ \E ok \in BOOLEAN : SignDownloads(ok)
    \/ CleanupFiles
    \/ \E file \in ImageUploads, failAt \in 0..3 : ImageCompress(file, failAt)

MediaSpec == Init /\ [][MediaNext]_vars

\* ------------------------------------------------- routes/media: downloads
\* the fileName of a download request: absent, or the key of a stored object
FileNames == {NullStr, Descriptor.fileName}

\* POST /images/download: requireAuth, downloadRequestSchema (fileName of at
\* least one character), then b2Service.getPrivateDownloadInfo(fileName),
\* which throws when the object store refuses (ok = FALSE)
PostDownload(caller, fileName, ok) ==
    /\ response' =
          IF ~Truthy(caller)
          THEN Response("download", caller, 0, 401, [error |-> "Unauthorized"])
          ELSE IF ~Truthy(fileName)
          THEN Response("download", caller, 0, 400, [error |-> "ValidationError"])
          ELSE IF ~ok
          THEN Response("download", caller, 0, 500, [error |-> "b2"])
          ELSE Response("download", caller, 0, 200,
                        [data |-> [downloadUrl |-> fileName,
                                   authorizationToken |-> "token",
                                   expiresInSeconds |-> 300]])
    /\ IF Truthy(caller) /\ Truthy(fileName)
       THEN B2Service(ok) ELSE UNCHANGED b2Vars
    /\ UNCHANGED <<capsuleVars, mediaVars, txs>>

\* the capsule requests together with the download requests
GateNext ==
    \/ Next
    \/ \E caller \in Callers, fileName \in FileNames, ok \in BOOLEAN :
          PostDownload(caller, fileName, ok)

GateSpec == Init /\ [][GateNext]_vars

\* ------------------------------------------- b2Service: authorize() calls
\* Several b2Service functions may await authorize() at once; a call is two
\* steps, before and after its await of b2.authorize().

\* a bug: the timestamp is written before the await, the credential after it
AuthorizeCall_stampFirst(c, force) ==
    /\ calls[c].pc = "idle"
    /\ IF ServedFromCache(force, now)
       THEN /\ response' = Response("authorize", c, 0, 200,
                                    [data |-> authorization, cached |-> TRUE])
            /\ UNCHANGED <<calls, lastAuthorizedAt>>
       ELSE /\ calls' = [calls EXCEPT ![c] = [pc |-> "awaiting", now |-> now]]
            /\ lastAuthorizedAt' = now
            /\ UNCHANGED response
    /\ UNCHANGED <<authorization, capsuleVars, mediaVars, txs>>

\* a bug: the cache is served up to and including the window
AuthorizeCall_inclusive(c, force) ==
    /\ calls[c].pc = "idle"
    /\ IF ServedFromCache_inclusive(force, now)
       THEN /\ response' = Response("authorize", c, 0, 200,
                                    [data |-> authorization, cached |-> TRUE])
            /\ UNCHANGED calls
       ELSE /\ calls' = [calls EXCEPT ![c] = [pc |-> "awaiting", now |-> now]]
            /\ UNCHANGED response
    /\ UNCHANGED <<authorization, lastAuthorizedAt, capsuleVars, mediaVars, txs>>

\* authorize(force) up to its await: const now = Date.now(); the cached
\* credential is returned, or b2.authorize() is called
AuthorizeCall(c, force) ==
    /\ calls[c].pc = "idle"
    /\ IF ServedFromCache(force, now)
       THEN /\ response' = Response("authorize", c, 0, 200,
                                    [data |-> authorization, cached |-> TRUE])
            /\ UNCHANGED calls
       ELSE /\ calls' = [calls EXCEPT ![c] = [pc |-> "awaiting", now |-> now]]
            /\ UNCHANGED response
    /\ UNCHANGED <<authorization, lastAuthorizedAt, capsuleVars, mediaVars, txs>>

\* b2.authorize() answers with a credential issued at issuedAt, or throws:
\* authorization = auth.data; lastAuthorizedAt = now; return authorization
AuthorizeReturn(c, ok, issuedAt) ==
    /\ calls[c].pc = "awaiting"
    /\ issuedAt \in calls[c].now..now
    /\ IF ok
       THEN /\ authorization' = Credential(calls[c].now, issuedAt)
            /\ lastAuthorizedAt' = calls[c].now
            /\ response' = Response("authorize", c, 0, 200,
                                    [data |-> authorization', cached |-> FALSE])
       ELSE /\ response' = Response("authorize", c, 0, 500,
                                    [error |-> "b2.authorize"])
            /\ UNCHANGED <<authorization, lastAuthorizedAt>>
    /\ calls' = [calls EXCEPT ![c] = NotCalling]
    /\ UNCHANGED <<capsuleVars, mediaVars, txs>>

AuthNext ==
    \/ Tick
    \/ \E c \in AuthCallers, force \in BOOLEAN : AuthorizeCall(c, force)
    \/ \E c \in AuthCallers, ok \in BOOLEAN, issuedAt \in 0..MaxTime :
          AuthorizeReturn(c, ok, issuedAt)

AuthSpec == Init /\ [][AuthNext]_vars

\* --------------------------------------------- concurrent creation requests
\* Several POST / requests are handled at once; every await of saveCapsule is
\* a step.  db.transaction('write') gives each request a transaction of its
\* own: its statements are seen by no other transaction until its commit,
\* which applies them together, and its rollback discards them.  (A database
\* that admits one write transaction at a time produces a part of these
\* interleavings, the refused transaction failing when it is opened.)
ConcPayloads ==
    {p \in MediaPayloads :
        p.attachments \in {<<>>, <<ImageDescriptor, VideoDescriptor>>}}

\* createCapsule up to await storage.saveCapsule: the capsule and its
\* normalised attachments
BuildCapsule(payload, ownerId, uuid) ==
    LET isLocked == Truthy(payload.passphrase)
    IN  [id |-> uuid, title |-> payload.title, message |-> payload.message,
         author |-> Null, ownerId |-> ownerId, createdAt |-> now,
         revealAt |-> payload.revealAt, isLocked |-> isLocked,
         passphraseHash |-> IF isLocked THEN BcryptHash(payload.passphrase)
                            ELSE Null]
BuildAttachments(payload, uuid) ==
    [i \in DOMAIN payload.attachments |->
        normalizeAttachmentForStorage(payload.attachments[i], i, uuid, now)]

\* createCapsule and saveCapsule up to const tx = await db.transaction('write'),
\* which opens the transaction or throws
TxOpen(r, payload, ok) ==
    /\ txs[r].pc = "idle" /\ nextId <= MaxStored
    /\ LET capsule == BuildCapsule(payload, "alice", nextId)
           atts == BuildAttachments(payload, nextId)
           tx == [pc |-> "open", outcome |-> "none", capsule |-> capsule,
                  atts |-> atts, ran |-> 0]
       IN  IF ok
           THEN /\ txs' = [txs EXCEPT ![r] = tx]
                /\ UNCHANGED response
           ELSE /\ txs' = [txs EXCEPT ![r] = [tx EXCEPT !.pc = "idle",
                                                        !.outcome = "failed"]]
                /\ response' = Response("create", "alice", nextId, 500,
                                        [error |-> "transaction failed"])
    /\ nextId' = nextId + 1
    /\ UNCHANGED <<capsules, attachments, now, mediaVars, b2Vars>>

\* a bug: the statements run on the shared connection (BEGIN ... COMMIT sent
\* through the client): a commit commits what every open request has run
TxStep_sharedConnection(r, ok) ==
    /\ txs[r].pc = "open"
    /\ LET tx == txs[r]
           n == Len(tx.atts)
           k == tx.ran + 1
           open == {o \in Requests : txs[o].pc = "open" /\ txs[o].ran >= 1}
       IN  IF ~ok
           THEN /\ txs' = [txs EXCEPT ![r] = [tx EXCEPT !.pc = "idle",
                                                        !.outcome = "failed"]]
                /\ response' = Response("create", tx.capsule.ownerId,
                                        tx.capsule.id, 500,
                                        [error |-> StatementError(k, n)])
                /\ UNCHANGED <<capsules, attachments>>
           ELSE IF k <= n + 1
           THEN /\ txs' = [txs EXCEPT ![r].ran = k]
                /\ UNCHANGED <<capsules, attachments, response>>
           ELSE /\ capsules' = [id \in DOMAIN capsules
                                       \cup {txs[o].capsule.id : o \in open} |->
                                   IF id \in DOMAIN capsules THEN capsules[id]
                                   ELSE CapsuleRow(
                                          txs[CHOOSE o \in open :
                                                txs[o].capsule.id = id].capsule)]
                /\ attachments' = attachments \cup UNION
                      {TxAfter(txs[o].capsule, txs[o].atts, txs[o].ran).attachments
                          : o \in open}
                /\ txs' = [txs EXCEPT ![r] = [tx EXCEPT !.pc = "idle",
                                                        !.outcome = "committed"]]
                /\ response' = Response("create", tx.capsule.ownerId,
                                        tx.capsule.id, 201,
                                        [data |-> messageAvailableFlag(
                                            Ext(tx.capsule, "attachments", tx.atts),
                                            ~tx.capsule.isLocked
                                            /\ tx.capsule.revealAt <= now)])
    /\ UNCHANGED <<now, nextId, mediaVars, b2Vars>>

\* the next await of saveCapsule: statement 1 inserts the capsule, statements
\* 2..n+1 the attachments, n+2 is tx.commit(); a statement that throws goes to
\* the catch block, which rolls back and rethrows
TxStep(r, ok) ==
    /\ txs[r].pc = "open"
    /\ LET tx == txs[r]
           n == Len(tx.atts)
           k == tx.ran + 1
           committed == TxAfter(tx.capsule, tx.atts, n + 2)
       IN  IF ~ok
           THEN /\ txs' = [txs EXCEPT ![r] = [tx EXCEPT !.pc = "idle",
                                                        !.outcome = "failed"]]
                /\ response' = Response("create", tx.capsule.ownerId,
                                        tx.capsule.id, 500,
                                        [error |-> StatementError(k, n)])
                /\ UNCHANGED <<capsules, attachments>>
           ELSE IF k <= n + 1
           THEN /\ txs' = [txs EXCEPT ![r].ran = k]
                /\ UNCHANGED <<capsules, attachments, response>>
           ELSE /\ capsules' = committed.capsules
                /\ attachments' = committed.attachments
                /\ txs' = [txs EXCEPT ![r] = [tx EXCEPT !.pc = "idle",
                                                        !.outcome = "committed"]]
                /\ response' = Response("create", tx.capsule.ownerId,
                                        tx.capsule.id, 201,
                                        [data |-> messageAvailableFlag(
                                            Ext(tx.capsule, "attachments", tx.atts),
                                            ~tx.capsule.isLocked
                                            /\ tx.capsule.revealAt <= now)])
    /\ UNCHANGED <<now, nextId, mediaVars, b2Vars>>

ConcNext ==
    \/ \E r \in Requests, payload \in ConcPayloads, ok \in BOOLEAN :
          TxOpen(r, payload, ok)
    \/ \E r \in Requests, ok \in BOOLEAN : TxStep(r, ok)

ConcSpec == Init /\ [][ConcNext]_vars

\* ------------------------------------------------------------------ claims
\* vocabulary of the claims
Stored        == DOMAIN capsules
OwnerOf(id)   == capsules[id].owner_id
IsLocked(id)  == capsules[id].is_locked # 0
RevealAt(id)  == capsules[id].reveal_at
HasMessage(p) == "message" \in DOMAIN p
\* the response body carries the projection of one capsule
HasData == response.op \in {"create", "get", "unlock"}
           /\ "data" \in DOMAIN response.body
BodyError == IF "error" \in DOMAIN response.body THEN response.body.error ELSE ""
BodyStatus == IF "status" \in DOMAIN response.body THEN response.body.status ELSE ""

\* C1: for every stored locked capsule and every clock value, getCapsuleStatus
\* by its owner returns 'locked', with revealAt before, at or after now; and no
\* GET /:id response ever serves a locked capsule as anything but 403 locked.
C1_LockedIsLockedAtAnyTime ==
    /\ \A id \in Stored : IsLocked(id) =>
          \A r \in getCapsuleStatus(id, OwnerOf(id)) :
             r.err = 0 /\ r.status = "locked"
    /\ (HasData /\ response.op = "get" /\ response.body.data.isLocked) =>
          response.http = 403 /\ BodyError = "locked"

\* a locked capsule whose reveal time has passed was just read by its owner
C1_Witness ==
    /\ response.op = "get" /\ response.http = 403 /\ BodyError = "locked"
    /\ response.id \in Stored /\ IsLocked(response.id)
    /\ response.caller = OwnerOf(response.id)
    /\ RevealAt(response.id) < now

\* the capsule, as stored under the owner's scope, is locked with this digest
C2_Kept(id, ownerId, digest) ==
    /\ id \in Stored /\ OwnerOf(id) = ownerId
    /\ capsules[id].is_locked = 1 /\ capsules[id].passphrase_hash = digest
    /\ \A r \in getCapsuleStatus(id, ownerId) :
          r.status = "locked" /\ ~HasMessage(r.capsule[1])

\* C2: an unlock of a locked capsule with the matching passphrase answers
\* 'unlocked' with the stored message, and once that answer is sent the store
\* still holds the capsule locked under the same digest: a status request
\* answers 'locked' without the message, and an unlock answers 'unlocked' for
\* the passphrase and 'invalid_passphrase' without the message for any other.
C2_UnlockLeavesCapsuleLocked ==
    /\ \A id \in Stored, p \in Passphrases :
          (IsLocked(id) /\ capsules[id].passphrase_hash = BcryptHash(p)) =>
             \A r \in unlockCapsule(id, p, OwnerOf(id)) :
                /\ r.err = 0 /\ r.status = "unlocked"
                /\ HasMessage(r.capsule[1])
                /\ r.capsule[1].message = capsules[id].message
    /\ (response.op = "unlock" /\ response.http = 200 /\ BodyStatus = "unlocked") =>
          \E p \in Passphrases :
             /\ C2_Kept(response.id, response.caller, BcryptHash(p))
             /\ response.body.data.message = capsules[response.id].message
             /\ \A q \in Passphrases :
                   \A r \in unlockCapsule(response.id, q, response.caller) :
                      IF q = p
                      THEN r.status = "unlocked" /\ HasMessage(r.capsule[1])
                      ELSE r.status = "invalid_passphrase" /\ ~HasMessage(r.capsule[1])

\* the owner has just unlocked a capsule, which is still stored locked
C2_Witness ==
    /\ response.op = "unlock" /\ response.http = 200
    /\ BodyStatus = "unlocked" /\ HasMessage(response.body.data)
    /\ response.id \in Stored /\ IsLocked(response.id)
    /\ capsules[response.id].passphrase_hash # Null

\* C3: in every reachable state (so after any number of wrong attempts) an
\* unlock of a locked capsule by its owner answers 'unlocked' for the passphrase
\* whose digest is stored and 'invalid_passphrase' without the message for
\* every other one, some passphrase does unlock, and a 403 invalid_passphrase
\* body has no message.
C3_WrongPassphraseNoLockout ==
    /\ \A id \in Stored : IsLocked(id) =>
          /\ \A p \in Passphrases : \A r \in unlockCapsule(id, p, OwnerOf(id)) :
                IF capsules[id].passphrase_hash = BcryptHash(p)
                THEN r.status = "unlocked" /\ HasMessage(r.capsule[1])
                ELSE r.status = "invalid_passphrase" /\ ~HasMessage(r.capsule[1])
          /\ \E p \in Passphrases : \A r \in unlockCapsule(id, p, OwnerOf(id)) :
                r.status = "unlocked"
    /\ (response.op = "unlock" /\ BodyError = "invalid_passphrase") =>
          response.http = 403 /\ ~HasMessage(response.body.data)

\* a wrong passphrase was just refused, after the reveal time
C3_Witness ==
    /\ response.op = "unlock" /\ response.http = 403
    /\ BodyError = "invalid_passphrase"
    /\ response.id \in Stored /\ IsLocked(response.id)
    /\ response.caller = OwnerOf(response.id)
    /\ RevealAt(response.id) <= now

\* the response is an 'available' / 'unlocked' outcome, or the 201 of a
\* capsule that is neither locked nor future-dated
C4_Revealing ==
    IF response.op = "create"
    THEN ~response.body.data.isLocked
         /\ response.body.data.revealAt <= response.body.data.createdAt
    ELSE response.http = 200

\* C4: every response of create, status and unlock that carries a projection
\* and is not an 'available' / 'unlocked' outcome (the 403 bodies, and a 201
\* for a locked or future-dated capsule) has no message key.
C4_HiddenMessageKeyAbsent ==
    (HasData /\ ~C4_Revealing) => ~HasMessage(response.body.data)

\* a creation response for a capsule that is not locked but future-dated
C4_Witness ==
    /\ HasData /\ response.op = "create" /\ response.http = 201
    /\ ~response.body.data.isLocked
    /\ response.body.data.revealAt > response.body.data.createdAt
    /\ ~HasMessage(response.body.data)

\* C5: for a stored capsule that is not locked and whose revealAt is after
\* now, getCapsuleStatus by its owner returns 'not_revealed' and a projection
\* without the message key.
C5_FutureUnlockedNotRevealed ==
    \A id \in Stored : (~IsLocked(id) /\ RevealAt(id) > now) =>
       \A r \in getCapsuleStatus(id, OwnerOf(id)) :
          r.status = "not_revealed" /\ ~HasMessage(r.capsule[1])

\* the owner just read such a capsule before its reveal time
C5_Witness ==
    /\ response.op = "get" /\ response.http = 403
    /\ BodyError = "not_revealed" /\ ~HasMessage(response.body.data)
    /\ response.id \in Stored /\ ~IsLocked(response.id)
    /\ RevealAt(response.id) > now

\* C6: for a stored capsule that is not locked, getCapsuleStatus by its owner
\* returns 'available' with the stored message when revealAt <= now (the
\* instant revealAt = now included), and 'not_revealed' otherwise.
C6_AvailableIffRevealReached ==
    \A id \in Stored : ~IsLocked(id) =>
       \A r \in getCapsuleStatus(id, OwnerOf(id)) :
          IF RevealAt(id) <= now
          THEN /\ r.status = "available" /\ HasMessage(r.capsule[1])
               /\ r.capsule[1].message = capsules[id].message
          ELSE r.status = "not_revealed"

\* the owner just read the message at the reveal instant itself
C6_Witness ==
    /\ response.op = "get" /\ response.http = 200
    /\ HasMessage(response.body.data)
    /\ response.id \in Stored /\ ~IsLocked(response.id)
    /\ RevealAt(response.id) = now

\* the keys that must never reach a client, as object keys and as columns
Sensitive == {"passphraseHash", "ownerId", "passphrase_hash", "owner_id"}
\* a projection has no sensitive key, nor has any of its attachments
Clean(p) ==
    /\ DOMAIN p \cap Sensitive = {}
    /\ \A i \in DOMAIN p.attachments : DOMAIN p.attachments[i] \cap Sensitive = {}

\* C7: no response of create, list, status or unlock, whatever its status
\* code, has the digest or the owner id among the keys of its body, of a
\* capsule projection in it or of an attachment of such a projection.
C7_NoDigestNoOwnerInResponses ==
    /\ DOMAIN response.body \cap Sensitive = {}
    /\ HasData => Clean(response.body.data)
    /\ (response.op = "list" /\ response.http = 200) =>
          \A i \in DOMAIN response.body.data : Clean(response.body.data[i])

\* a 403 body that carries the projection of a locked capsule with attachments
C7_Witness ==
    /\ HasData /\ response.http = 403 /\ response.body.data.isLocked
    /\ response.body.data.attachments # <<>>
    /\ response.id \in Stored
    /\ capsules[response.id].passphrase_hash # Null

\* C8: every stored capsule has isLocked exactly when its digest is not null.
C8_LockedIffDigest ==
    \A id \in Stored :
       /\ IsLocked(id) = (capsules[id].passphrase_hash # Null)
       /\ mapRowToCapsule(capsules[id]).isLocked
             = (mapRowToCapsule(capsules[id]).passphraseHash # Null)

\* a capsule stored without passphrase, after an unlock request on it
C8_Witness ==
    /\ response.op = "unlock" /\ response.http = 200
    /\ BodyStatus = "available"
    /\ response.id \in Stored /\ ~IsLocked(response.id)
    /\ capsules[response.id].passphrase_hash = Null

\* C9: for a stored capsule, getCapsuleStatus and unlockCapsule by any other
\* owner return exactly 'not_found' without projection; every entry of
\* listCapsuleSummaries(o) is a stored capsule owned by o; without an owner
\* the three calls throw 401 before any lookup, so no response to a caller
\* without identity carries a capsule.
C9_OwnerScoped ==
    /\ \A id \in Stored : \A o \in Owners \ {OwnerOf(id)} :
          /\ getCapsuleStatus(id, o) = {Returned("not_found", <<>>)}
          /\ \A p \in Passphrases :
                unlockCapsule(id, p, o) = {Returned("not_found", <<>>)}
    /\ \A o \in Owners : \A r \in listCapsuleSummaries(o) :
          \A i \in DOMAIN r.capsule :
             r.capsule[i].id \in Stored /\ OwnerOf(r.capsule[i].id) = o
    /\ \A id \in CapsuleIds :
          /\ getCapsuleStatus(id, NoOwner) = {Threw(401, "OwnerRequired")}
          /\ \A p \in Passphrases :
                unlockCapsule(id, p, NoOwner) = {Threw(401, "OwnerRequired")}
    /\ listCapsuleSummaries(NoOwner) = {Threw(401, "OwnerRequired")}
    /\ response.caller = NoOwner => "data" \notin DOMAIN response.body

\* another owner just asked for a stored capsule and got 404
C9_Witness ==
    /\ response.op = "get" /\ response.http = 404
    /\ response.id \in Stored
    /\ response.caller \in Owners /\ response.caller # OwnerOf(response.id)

\* the outcome of a creation in which statement failAt >= 2 of saveCapsule
\* fails: both tables as they were, no row of the new capsule, the error thrown
C10_Failed(caller, payload, failAt) ==
    LET r == createCapsule(payload, caller, nextId, failAt)
    IN  /\ r.capsules = capsules /\ r.attachments = attachments
        /\ nextId \notin DOMAIN r.capsules
        /\ \A a \in r.attachments : a.capsule_id # nextId
        /\ r.err = 500
        /\ r.status = StatementError(failAt, Len(payload.attachments))
        /\ ErrorResponse("create", caller, nextId, r).http = 500

\* C10: in every reachable state that admits a creation, a creation in which a
\* statement after the capsule insert fails (an attachment insert or the commit)
\* leaves both tables as they were, with no row of the new capsule, and throws
\* the statement's error, which is answered 500; and a creation answered 500
\* has stored nothing.
C10_SaveCapsuleAllOrNothing ==
    /\ nextId <= MaxStored =>
          \A caller \in Owners, payload \in MediaPayloads :
             createCapsuleSchema(payload) =>
                \A failAt \in 2..(Len(payload.attachments) + 2) :
                   C10_Failed(caller, payload, failAt)
    /\ (response.op = "create" /\ response.http = 500) =>
          /\ response.id \notin Stored
          /\ \A a \in attachments : a.capsule_id # response.id

\* an attachment insert has just failed; the capsule is in neither table
C10_Witness ==
    /\ response.op = "create" /\ response.http = 500
    /\ BodyError = "insert into capsule_attachments failed"
    /\ response.id \notin Stored
    /\ \A a \in attachments : a.capsule_id # response.id

\* the attachment rows of one capsule
RowsOf(id) == {a \in attachments : a.capsule_id = id}

\* C11: for every stored capsule and every owner who does not own it (and for
\* a call without owner), deleteCapsule returns false without throwing and
\* leaves both tables exactly as they were: the capsule row and each of its
\* attachment rows stay.
C11_DeniedDeleteChangesNothing ==
    \A id \in Stored : \A o \in Callers \ {OwnerOf(id)} :
       LET r == deleteCapsule(id, o, FALSE)
       IN  /\ ~r.deleted /\ ~r.threw
           /\ r.capsules = capsules /\ r.attachments = attachments
           /\ id \in DOMAIN r.capsules
           /\ RowsOf(id) \subseteq r.attachments

\* bob was just denied the delete of alice's capsule, whose attachments stay
C11_Witness ==
    /\ response.op = "delete" /\ response.http = 404
    /\ response.id \in Stored /\ response.caller \in Owners
    /\ response.caller # OwnerOf(response.id)
    /\ RowsOf(response.id) # {}

\* C12: for every stored capsule, deleteCapsule by its owner returns true and
\* leaves no row of that capsule in either table, while every other capsule
\* row and every attachment row of another capsule stays as it was; when a
\* statement of the delete throws, nothing is removed.
C12_OwnerDeleteRemovesAllRows ==
    \A id \in Stored :
       LET r == deleteCapsule(id, OwnerOf(id), FALSE)
           failed == deleteCapsule(id, OwnerOf(id), TRUE)
       IN  /\ r.deleted /\ ~r.threw
           /\ id \notin DOMAIN r.capsules
           /\ \A a \in r.attachments : a.capsule_id # id
           /\ DOMAIN r.capsules = Stored \ {id}
           /\ \A other \in Stored \ {id} : r.capsules[other] = capsules[other]
           /\ r.attachments = attachments \ RowsOf(id)
           /\ failed.threw /\ ~failed.deleted
           /\ failed.capsules = capsules /\ failed.attachments = attachments

\* alice has just deleted a capsule; no row of it remains, and another capsule
\* is still stored with its attachment rows
C12_Witness ==
    /\ response.op = "delete" /\ response.http = 204
    /\ response.id \notin Stored /\ RowsOf(response.id) = {}
    /\ \E other \in Stored : RowsOf(other) # {}

\* a creation payload carrying n image descriptors
PayloadOfLength(n) ==
    [title |-> "t", message |-> "hello", revealAt |-> 0,
     passphrase |-> NoPassphrase,
     attachments |-> [i \in 1..n |-> ImageDescriptor]]

\* C13: a creation payload with n attachment descriptors passes validation
\* exactly when n <= 5; a creation answered 400 (ValidationError) has written
\* no capsule row and no attachment row, and no stored capsule has more than
\* five attachment rows.
C13_TooManyAttachmentsRejected ==
    /\ \A n \in 0..MaxDescriptors :
          createCapsuleSchema(PayloadOfLength(n)) <=> n <= MaxAttachments
    /\ (response.op = "create" /\ response.http = 400) =>
          /\ BodyError = "ValidationError"
          /\ response.id \notin Stored /\ RowsOf(response.id) = {}
    /\ \A id \in Stored : Cardinality(RowsOf(id)) <= MaxAttachments

\* a creation with six descriptors was just answered 400; nothing of it is stored
C13_Witness ==
    /\ response.op = "create" /\ response.http = 400
    /\ BodyError = "ValidationError"
    /\ response.id \notin Stored /\ RowsOf(response.id) = {}

\* C17: the capsules getCapsulesByOwner returns to the service carry no message
\* field.
C17_StoreListOmitsMessage ==
    \A o \in Owners : \A listed \in getCapsulesByOwner(o) :
       \A i \in DOMAIN listed : ~HasMessage(listed[i])

\* C18: every entry listCapsuleSummaries returns, and so every entry of a
\* listing response, lacks the message field, whether the capsule is locked or
\* not and revealed or not, also when its messageAvailable flag is true.
C18_ListEntriesLackMessage ==
    /\ \A o \in Owners : \A r \in listCapsuleSummaries(o) :
          \A i \in DOMAIN r.capsule : ~HasMessage(r.capsule[i])
    /\ (response.op = "list" /\ response.http = 200) =>
          \A i \in DOMAIN response.body.data :
             ~HasMessage(response.body.data[i])

\* a listing was just answered with an entry whose message is available
C18_Witness ==
    /\ response.op = "list" /\ response.http = 200
    /\ \E i \in DOMAIN response.body.data :
          /\ response.body.data[i].messageAvailable
          /\ response.body.data[i].isRevealed
          /\ ~HasMessage(response.body.data[i])

\* the payload has an image attachment that carries a poster descriptor
HasImagePoster(payload) ==
    \E i \in DOMAIN payload.attachments :
       /\ Get(payload.attachments[i], "mediaType", "image") = "image"
       /\ "poster" \in DOMAIN payload.attachments[i]

\* C19: every stored attachment row has poster columns exactly when its media
\* type is video, and a creation request in which an image attachment carries
\* a poster descriptor is answered 400.
C19_PosterIffVideo ==
    /\ [](\A a \in attachments :
             Truthy(a.poster_file_name) <=> a.media_type = "video")
    /\ [][\A payload \in MediaPayloads :
             (HasImagePoster(payload) /\ PostMediaCapsule(payload, 0))
             => response'.http = 400]_vars

\* the attachment a read returns has the descriptor's media fields
SameDescriptor(d, a) ==
    /\ a.mediaType = Get(d, "mediaType", "image")
    /\ a.fileName = d.fileName /\ a.contentType = d.contentType
    /\ a.size = d.size
    /\ a.width = Get(d, "width", NullNum)
    /\ a.height = Get(d, "height", NullNum)
    /\ a.durationSeconds = Get(d, "durationSeconds", NullNum)
    /\ a.bitrate = Get(d, "bitrate", NullNum)
    /\ IF "poster" \in DOMAIN d
       THEN /\ a.poster # Null
            /\ \A k \in DOMAIN d.poster : a.poster[k] = d.poster[k]
       ELSE a.poster = Null

\* C20: right after a creation request was accepted, a read of the new capsule
\* by its owner is answered 'available' with as many attachments as the
\* request carried, each descriptor returned with the same mediaType, fileName,
\* contentType, size, width, height, durationSeconds, bitrate and poster.
C20_CreateReadRoundTrip ==
    [][\A payload \in MediaPayloads, id \in StoreIds :
          (/\ id = nextId /\ createCapsuleSchema(payload)
           /\ PostMediaCapsule(payload, 0))
          => \A r \in getCapsuleStatus(id, "alice")' :
                /\ r.status = "available"
                /\ Len(r.capsule[1].attachments) = Len(payload.attachments)
                /\ \A i \in DOMAIN payload.attachments :
                      \E j \in DOMAIN r.capsule[1].attachments :
                         SameDescriptor(payload.attachments[i],
                                        r.capsule[1].attachments[j])]_vars

\* the scratch files a video-processing request may create
ScratchKinds == {"input", "optimized", "poster"}

\* C14: once the handler of a video-processing request has finished, whatever
\* the way it ended (201, a 400 of the checks, or a throw of the scratch write,
\* the transcoder, the poster extraction, the probe, the reads, an upload or
\* the signing), none of the scratch files of that request or of an earlier
\* one (raw input, transcoded output, poster frame) is on disk.
C14_NoScratchFileAfterHandler ==
    video.pc = "idle"
    => \A id \in 1..video.id, kind \in ScratchKinds :
          ScratchPath(id, kind) \notin disk

\* the raw input was written, the transcoder threw, and the handler finished
C14_Witness ==
    /\ video.pc = "idle" /\ video.id > 0
    /\ video.trace = <<"write", "transcode">>
    /\ Len(video.tempFiles) = 2
    /\ response.op = "video" /\ response.id = video.id /\ response.http = 500
    /\ disk = {}

\* C15: an upload, image or video, whose size exceeds the byte ceiling of its
\* route is answered with HTTP status 413.
C15_OversizeUploadGets413 ==
    [][/\ \A file \in VideoUploads :
             (file.size > MAX_VIDEO_BYTES /\ VideoUpload(file))
             => response'.http = 413
       /\ \A file \in ImageUploads, failAt \in 0..3 :
             (file.size > MAX_IMAGE_BYTES /\ ImageCompress(file, failAt))
             => response'.http = 413]_vars

\* the answer to the last upload request says that its part was too large
OversizeVideoRejected ==
    /\ response.op = "video" /\ response.id = video.id
    /\ response.body = [error |-> "File too large"]

\* C16: a video upload above the byte ceiling is rejected with no step of the
\* handler taken: no scratch file of the request was written or is registered,
\* the transcoder was not invoked, and no object of the request is in the
\* object store.
C16_OversizeVideoRejectedBeforeProcessing ==
    OversizeVideoRejected
    => /\ video.pc = "idle"
       /\ video.trace = <<>> /\ video.tempFiles = <<>>
       /\ \A kind \in ScratchKinds : ScratchPath(video.id, kind) \notin disk
       /\ \A kind \in {"video", "poster", "image"} :
             ObjectKey(video.id, kind) \notin bucket

\* an oversize video was rejected after an earlier request stored its objects
C16_Witness ==
    /\ OversizeVideoRejected
    /\ video.id = 2
    /\ ObjectKey(1, "video") \in bucket

\* the place of a stage of the handler in the order write scratch input,
\* transcode, probe output, extract poster, upload outputs
StageRank(stage) ==
    CASE stage = "write" -> 1
      [] stage = "transcode" -> 2
      [] stage = "probe" -> 3
      [] stage = "poster" -> 4
      [] OTHER -> 5

\* C23: the stages a video-processing request has run so far were run in the
\* order write scratch input, transcode, probe output, extract poster, upload
\* outputs; the scratch files are released after all of them.
C23_StagesInSpecifiedOrder ==
    \A i, j \in DOMAIN video.trace :
       i < j => StageRank(video.trace[i]) <= StageRank(video.trace[j])

\* the answer to the request in hand reports a failure of the transcoder
TranscoderFailed ==
    /\ response.op = "video" /\ response.id = video.id
    /\ response.body = [error |-> "transcode"]

\* C24: the transcoder is invoked at most once per request, and when it failed
\* the request was answered with an error and went on to the release of its
\* scratch files: no poster extraction, probe, read or upload was run and no
\* object of the request is in the object store.
C24_TranscoderFailureAborts ==
    /\ Cardinality({i \in DOMAIN video.trace : video.trace[i] = "transcode"}) <= 1
    /\ TranscoderFailed
       => /\ response.http = 500
          /\ video.pc \in {"cleanup", "idle"}
          /\ video.trace = <<"write", "transcode">>
          /\ \A kind \in {"video", "poster"} :
                ObjectKey(video.id, kind) \notin bucket

\* the transcoder failed leaving a partly written output, not yet released
C24_Witness ==
    /\ TranscoderFailed
    /\ video.pc = "cleanup"
    /\ ScratchPath(video.id, "optimized") \in disk

\* C30: when a video-processing request has ended with an error, neither its
\* transcoded video nor its poster is in the object store.
C30_FailedVideoLeavesNoObject ==
    (/\ video.pc = "idle" /\ response.op = "video" /\ response.id = video.id
     /\ response.http >= 400)
    => \A kind \in {"video", "poster"} : ObjectKey(video.id, kind) \notin bucket

\* C25: for a stored capsule that is not locked, at every clock value and for
\* every caller and passphrase (none included), unlockCapsule returns what
\* getCapsuleStatus returns; for the owner that is 'available' with the message
\* when revealAt <= now and 'not_revealed' without the message key otherwise.
C25_UnlockOfUnlockedIsStatus ==
    \A id \in Stored : ~IsLocked(id) =>
       /\ \A caller \in Callers, q \in Passphrases \cup {NoPassphrase} :
             unlockCapsule(id, q, caller) = getCapsuleStatus(id, caller)
       /\ \A q \in Passphrases \cup {NoPassphrase} :
             \A r \in unlockCapsule(id, q, OwnerOf(id)) :
                IF RevealAt(id) <= now
                THEN r.status = "available" /\ HasMessage(r.capsule[1])
                ELSE r.status = "not_revealed" /\ ~HasMessage(r.capsule[1])

\* the owner just sent a passphrase for a capsule that is not locked, before
\* its reveal time, and was refused
C25_Witness ==
    /\ response.op = "unlock" /\ response.http = 403
    /\ BodyError = "not_revealed" /\ ~HasMessage(response.body.data)
    /\ response.id \in Stored /\ ~IsLocked(response.id)
    /\ response.caller = OwnerOf(response.id)
    /\ RevealAt(response.id) > now

\* C29: in every reachable state of the store, whatever creations (failed ones
\* included) and deletions (denied or failed ones included) were requested,
\* every attachment row's capsule_id is the id of a stored capsule; and every
\* step that inserts attachment rows inserts, in the same step, the capsule
\* row they belong to.
C29_NoOrphanAttachments ==
    /\ [](\A a \in attachments : a.capsule_id \in Stored)
    /\ [][\A a \in attachments' \ attachments :
             a.capsule_id \in (DOMAIN capsules') \ Stored]_vars

\* a creation with attachments failed while another capsule is stored with
\* its attachment rows
C29_Witness ==
    /\ response.op = "create" /\ response.http = 500
    /\ response.id \notin Stored
    /\ \E id \in Stored : RowsOf(id) # {}

\* C22: the width and height reported for a compressed image are at most
\* MAX_WIDTH and MAX_HEIGHT, and at most the original width and the original
\* height reported with them, whatever the orientation of the input.
C22_CompressedWithinBoundsAndOriginal ==
    (response.op = "image" /\ response.http = 201)
    => LET d == response.body.data
       IN  /\ d.width <= MAX_WIDTH /\ d.height <= MAX_HEIGHT
           /\ d.width <= d.original.width /\ d.height <= d.original.height

\* the capsule is revealed to the caller, or the caller can have it revealed:
\* its status is 'available', or some passphrase unlocks it for the caller
RevealedTo(id, caller) ==
    \/ \E r \in getCapsuleStatus(id, caller) : r.err = 0 /\ r.status = "available"
    \/ \E q \in Passphrases : \E r \in unlockCapsule(id, q, caller) :
          r.err = 0 /\ r.status \in {"unlocked", "available"}

\* C21: when a download request has been answered with a signed URL for a
\* file name, every stored capsule that has an attachment of that name is
\* revealed to the caller of the request (its status is 'available', or
\* 'unlocked' with the passphrase).
C21_SignedDownloadOnlyWhenRevealed ==
    (response.op = "download" /\ response.http = 200)
    => \A id \in Stored :
          (\E a \in attachments : /\ a.capsule_id = id
                                  /\ a.file_name = response.body.data.downloadUrl)
          => RevealedTo(id, response.caller)

\* C27: under every interleaving of authorize calls, (1) the cached credential
\* and lastAuthorizedAt always come from one and the same completed
\* authorization: the timestamp is the clock value read by the call that
\* obtained the credential; (2) a call that returns hands out the credential
\* that is cached at that moment, never null; (3) a call whose b2.authorize()
\* throws leaves the cached pair as it was.
C27_RefreshRaceHarmless ==
    /\ [](IF authorization = Null THEN lastAuthorizedAt = 0
          ELSE lastAuthorizedAt = authorization.requestedAt)
    /\ [][\A c \in AuthCallers :
            /\ \A force \in BOOLEAN :
                  (AuthorizeCall(c, force) /\ response' # response)
                  => /\ response'.body.data = authorization'
                     /\ authorization' # Null
            /\ \A issuedAt \in 0..MaxTime :
                  AuthorizeReturn(c, TRUE, issuedAt)
                  => /\ response'.body.data = authorization'
                     /\ authorization' = Credential(calls[c].now, issuedAt)
            /\ \A issuedAt \in 0..MaxTime :
                  AuthorizeReturn(c, FALSE, issuedAt)
                  => /\ response'.http = 500
                     /\ UNCHANGED <<authorization, lastAuthorizedAt>>]_vars

\* two refreshes race: one call has completed and cached its credential while
\* the other, which began before that credential was issued, is still
\* awaiting b2.authorize()
C27_Witness ==
    \E c1, c2 \in AuthCallers :
       /\ c1 # c2
       /\ response.op = "authorize" /\ response.caller = c1
       /\ response.http = 200 /\ ~response.body.cached
       /\ authorization # Null /\ response.body.data = authorization
       /\ calls[c1].pc = "idle" /\ calls[c2].pc = "awaiting"
       /\ calls[c2].now < authorization.issuedAt

\* C28: a call of authorize is served from the cache, without a call of the
\* object store, only if it is not forced, a credential is cached and fewer
\* than AUTH_CACHE_WINDOW_MS units have passed since the cached credential was
\* asked for, hence since it was issued; every other call goes on to
\* b2.authorize(), and when that answers the cache holds the new credential.
C28_CacheWithinWindowOnly ==
    [][\A c \in AuthCallers :
         /\ \A force \in BOOLEAN :
               AuthorizeCall(c, force)
               => IF calls'[c].pc = "idle"
                  THEN /\ ~force /\ authorization # Null
                       /\ now - lastAuthorizedAt < AUTH_CACHE_WINDOW_MS
                       /\ now - authorization.issuedAt < AUTH_CACHE_WINDOW_MS
                       /\ response'.body = [data |-> authorization,
                                            cached |-> TRUE]
                  ELSE /\ force \/ authorization = Null
                          \/ now - lastAuthorizedAt >= AUTH_CACHE_WINDOW_MS
                       /\ calls'[c] = [pc |-> "awaiting", now |-> now]
         /\ \A issuedAt \in 0..MaxTime :
               AuthorizeReturn(c, TRUE, issuedAt)
               => /\ authorization'.issuedAt = issuedAt
                  /\ lastAuthorizedAt' = calls[c].now]_vars

\* a credential was cached, the window has passed, and a call that was not
\* forced is awaiting b2.authorize()
C28_Witness ==
    /\ authorization # Null
    /\ now - lastAuthorizedAt >= AUTH_CACHE_WINDOW_MS
    /\ \E c \in AuthCallers : calls[c] = [pc |-> "awaiting", now |-> now]
    /\ response.op = "authorize" /\ response.http = 200 /\ response.body.cached

\* the rows request r's transaction is to write are all committed
AllWritten(r) ==
    LET tx == txs[r]
    IN  /\ tx.capsule.id \in Stored
        /\ capsules[tx.capsule.id] = CapsuleRow(tx.capsule)
        /\ RowsOf(tx.capsule.id) =
              {AttachmentRow(tx.atts[i]) : i \in DOMAIN tx.atts}

\* none of them is
NoneWritten(r) ==
    txs[r].capsule.id \notin Stored /\ RowsOf(txs[r].capsule.id) = {}

====
